---- MODULE Spec2Model ----
(***************************************************************************)
(* Model of the grievance classifier of rag-classifier/app.py: the text    *)
(* normalizer, the keyword classifier, the LLM adapter and the hybrid      *)
(* arbiter.  Strings are sequences of one-character strings; confidences   *)
(* are exact fractions [n/d] (the decisions the code takes on them are the *)
(* same in binary floating point for the text lengths explored here).      *)
(***************************************************************************)
EXTENDS Integers, Sequences, FiniteSets, TLC

\* ------------------------------------------------------------------------
\* Bounds of the explored inputs
\* ------------------------------------------------------------------------
MaxTitleLen == 2
MaxPad == 15
MaxTextLen == 3
MaxUrgencyWords == 2
MaxLocationWords == 2

\* ------------------------------------------------------------------------
\* Fractions (Python floats of the confidence arithmetic)
\* ------------------------------------------------------------------------
Rat(n, d) == [isnum |-> TRUE, n |-> n, d |-> d]
\* a JSON value that is not a number (string, null, list ...)
NotANumber == [isnum |-> FALSE, n |-> 0, d |-> 1]
RatLE(a, b) == a.n * b.d <= b.n * a.d
RatLT(a, b) == a.n * b.d < b.n * a.d
RatGE(a, b) == RatLE(b, a)
RatEq(a, b) == a.n * b.d = b.n * a.d
RatAdd(a, b) == Rat(a.n * b.d + b.n * a.d, a.d * b.d)
\* Python min(a, b) / max(a, b): the first argument wins a tie
RatMin(a, b) == IF RatLT(b, a) THEN b ELSE a
RatMax(a, b) == IF RatLT(a, b) THEN b ELSE a

\* ------------------------------------------------------------------------
\* Characters and strings
\* ------------------------------------------------------------------------
LowerLetters == <<"a", "b", "c", "d", "e", "f", "g", "h", "i", "j", "k", "l", "m", "n", "o", "p", "q", "r", "s", "t", "u", "v", "w", "x", "y", "z">>
UpperLetters == <<"A", "B", "C", "D", "E", "F", "G", "H", "I", "J", "K", "L", "M", "N", "O", "P", "Q", "R", "S", "T", "U", "V", "W", "X", "Y", "Z">>
Letters == {LowerLetters[i] : i \in 1..26}
Upper == {UpperLetters[i] : i \in 1..26}
Space == {" ", "\t"}
ToLower == [c \in Upper |-> LowerLetters[CHOOSE i \in 1..26 : UpperLetters[i] = c]]
\* str.lower() on the characters of the model
LowerChar(c) == IF c \in Upper THEN ToLower[c] ELSE c
LowerStr(s) == [i \in 1..Len(s) |-> LowerChar(s[i])]
\* \w and \s of the regular expression r'[^\w\s]'
IsWordChar(c) == c \in Letters \cup Upper
IsSpaceChar(c) == c \in Space
\* variant: punctuation is left in place
SubNonWordKeep(s) == s

\* re.sub(r'[^\w\s]', ' ', text)
SubNonWord(s) == [i \in 1..Len(s) |-> IF IsWordChar(s[i]) \/ IsSpaceChar(s[i]) THEN s[i] ELSE " "]

RECURSIVE SplitFrom(_, _, _)
SplitFrom(s, i, cur) ==
    IF i > Len(s)
    THEN IF cur = <<>> THEN <<>> ELSE <<cur>>
    ELSE IF IsSpaceChar(s[i])
         THEN IF cur = <<>> THEN SplitFrom(s, i + 1, <<>>)
                            ELSE <<cur>> \o SplitFrom(s, i + 1, <<>>)
         ELSE SplitFrom(s, i + 1, Append(cur, s[i]))
\* str.split(): the maximal runs of non-whitespace characters
Split(s) == SplitFrom(s, 1, <<>>)

RECURSIVE Join(_)
\* ' '.join(words)
Join(words) ==
    IF words = <<>> THEN <<>>
    ELSE IF Len(words) = 1 THEN words[1]
    ELSE words[1] \o <<" ">> \o Join(Tail(words))

\* preprocess_text
PreprocessText(text) ==
    IF text = <<>> THEN <<>>
    ELSE Join(Split(SubNonWord(LowerStr(text))))

\* an argument of preprocess_text: None or a string
NullText == [isnull |-> TRUE, chars |-> <<>>]
Text(chars) == [isnull |-> FALSE, chars |-> chars]
\* preprocess_text on an argument that may be None (`if not text`)
PreprocessArgument(v) == IF v.isnull THEN <<>> ELSE PreprocessText(v.chars)

\* Python's `sub in s` on strings
Contains(sub, s) ==
    \E i \in 0..(Len(s) - Len(sub)) : SubSeq(s, i + 1, i + Len(sub)) = sub

\* ------------------------------------------------------------------------
\* Category catalog (categories.json is read at start-up; its content is an
\* input of the program)
\* ------------------------------------------------------------------------
SeverityKeys == <<"low", "medium", "high", "critical">>
ValidSeverities == {"Low", "Medium", "High", "Critical"}
\* str.capitalize() on the four keys of severity_scores
Capitalize(k) ==
    CASE k = "low" -> "Low"
      [] k = "medium" -> "Medium"
      [] k = "high" -> "High"
      [] k = "critical" -> "Critical"

CatRoads ==
    [name |-> "Roads",
     keywords |-> << <<"a">>, <<"a", "b">>, <<"a", "!">> >>,
     severity_indicators |-> [medium |-> << <<"!">> >>, high |-> << <<"b">> >>]]
CatWater ==
    [name |-> "Water",
     keywords |-> << <<"B">>, <<"b", "a">> >>,
     severity_indicators |-> [low |-> << <<"a">> >>,
                              critical |-> << <<"a">>, <<"a", " ", "b">> >>]]
\* a category whose keyword list holds the empty string, which Python finds
\* in every text
CatGeneral ==
    [name |-> "General", keywords |-> << <<>> >>, severity_indicators |-> <<>>]
\* the catalogs explored; the empty one is what load_categories returns
\* when the file is missing or corrupt
Catalogs == { <<>>, <<CatRoads, CatWater>>, <<CatWater, CatRoads>>, <<CatGeneral>> }

\* load_categories
LoadCategories == Catalogs

\* matched_keywords of one category: its keywords that occur in the text,
\* in keyword-list order
MatchedKeywords(category, processed_text) ==
    SelectSeq(category.keywords, LAMBDA k : Contains(LowerStr(k), processed_text))

\* number of entries of a list of indicators that occur in the text
CountMatches(indicators, processed_text) ==
    Len(SelectSeq(indicators, LAMBDA k : Contains(LowerStr(k), processed_text)))

\* variant: only categories with a keyword match count their indicators
SeverityHitsMatchedOnly(category, level, processed_text) ==
    IF level \in DOMAIN category.severity_indicators
       /\ Len(MatchedKeywords(category, processed_text)) > 0
    THEN CountMatches(category.severity_indicators[level], processed_text)
    ELSE 0

\* what one category adds to severity_scores[level]
SeverityHits(category, level, processed_text) ==
    IF level \in DOMAIN category.severity_indicators
    THEN CountMatches(category.severity_indicators[level], processed_text)
    ELSE 0

RECURSIVE SeverityScore(_, _, _)
\* severity_scores[level] after the loop over all categories
SeverityScore(categories, level, processed_text) ==
    IF categories = <<>> THEN 0
    ELSE SeverityHits(Head(categories), level, processed_text)
         + SeverityScore(Tail(categories), level, processed_text)

RECURSIVE CategoryScoresWithZero(_, _)
\* variant: categories without a match are recorded too
CategoryScoresWithZero(categories, processed_text) ==
    IF categories = <<>> THEN <<>>
    ELSE LET c == Head(categories)
             m == MatchedKeywords(c, processed_text)
         IN <<[name |-> c.name, score |-> Len(m), matched_keywords |-> m]>>
            \o CategoryScoresWithZero(Tail(categories), processed_text)

RECURSIVE CategoryScores(_, _)
\* category_scores after the loop: one entry per category with score > 0,
\* in catalog order (insertion order of the dict)
CategoryScores(categories, processed_text) ==
    IF categories = <<>> THEN <<>>
    ELSE LET c == Head(categories)
             m == MatchedKeywords(c, processed_text)
             rest == CategoryScores(Tail(categories), processed_text)
         IN IF Len(m) > 0
            THEN <<[name |-> c.name, score |-> Len(m), matched_keywords |-> m]>> \o rest
            ELSE rest

RECURSIVE MaxByScoreLast(_)
\* variant: the last item with the largest score
MaxByScoreLast(items) ==
    IF Len(items) = 1 THEN items[1]
    ELSE LET m == MaxByScoreLast(Tail(items))
         IN IF m.score >= items[1].score THEN m ELSE items[1]

RECURSIVE MaxByScore(_)
\* Python max(items, key=score): the first item with the largest score
MaxByScore(items) ==
    IF Len(items) = 1 THEN items[1]
    ELSE LET m == MaxByScore(Tail(items))
         IN IF m.score > items[1].score THEN m ELSE items[1]

\* variant: the counters scanned from critical down to low
SeverityItemsDescending(categories, processed_text) ==
    [i \in 1..4 |-> [name |-> SeverityKeys[5 - i],
                     score |-> SeverityScore(categories, SeverityKeys[5 - i], processed_text)]]

\* severity_scores.items() in the insertion order of the dict literal
SeverityItems(categories, processed_text) ==
    [i \in 1..4 |-> [name |-> SeverityKeys[i],
                     score |-> SeverityScore(categories, SeverityKeys[i], processed_text)]]

\* variant: a fifth of the word count as the divisor
KeywordConfidenceFifth(best_score, total_words) ==
    IF total_words > 0
    THEN RatMin(IF total_words > 5 THEN Rat(best_score * 5, total_words)
                                   ELSE Rat(best_score, 1),
                Rat(1, 1))
    ELSE Rat(0, 1)

\* variant: the match count divided by the word count itself
KeywordConfidencePerWord(best_score, total_words) ==
    IF total_words > 0
    THEN RatMin(Rat(best_score, total_words), Rat(1, 1))
    ELSE Rat(0, 1)

\* confidence = min(best_score / max(total_words * 0.1, 1), 1.0) if total_words > 0 else 0
KeywordConfidence(best_score, total_words) ==
    IF total_words > 0
    THEN RatMin(IF total_words > 10 THEN Rat(best_score * 10, total_words)
                                    ELSE Rat(best_score, 1),
                Rat(1, 1))
    ELSE Rat(0, 1)

\* keyword_classification
KeywordClassification(categories, title, description) ==
    LET text == title \o <<" ">> \o description
        processed_text == PreprocessText(text)
        category_scores == CategoryScores(categories, processed_text)
        best == IF category_scores # <<>>
                THEN MaxByScore(category_scores)
                ELSE [name |-> "Other", score |-> 0, matched_keywords |-> <<>>]
        best_severity == MaxByScore(SeverityItems(categories, processed_text))
        total_words == Len(Split(processed_text))
    IN [category |-> best.name,
        severity |-> IF best_severity.score > 0 THEN Capitalize(best_severity.name) ELSE "Medium",
        confidence |-> KeywordConfidence(best.score, total_words),
        method |-> "keyword",
        matched_keywords |-> best.matched_keywords,
        category_scores |-> category_scores,
        severity_scores |-> SeverityItems(categories, processed_text)]

\* ------------------------------------------------------------------------
\* LLM adapter
\* ------------------------------------------------------------------------
\* category_names = [cat['name'] for cat in self.categories]
CategoryNames(categories) == {categories[i].name : i \in 1..Len(categories)}

\* What the text-generation service can answer to one call: the call fails,
\* the completion is not JSON, it is JSON but not an object, or it is an
\* object carrying any subset of the fields category, severity, confidence.
ResponseCategories == {"Roads", "Foobar"}
ResponseSeverities == {"Critical", "Urgent"}
ResponseConfidences ==
    {Rat(-5, 10), Rat(9, 10), Rat(15, 10), NotANumber}
Response(kind, fields, category, severity, confidence) ==
    [kind |-> kind, fields |-> fields, category |-> category,
     severity |-> severity, confidence |-> confidence]
FailedResponses ==
    {Response(k, {}, "", "", NotANumber) : k \in {"transport_error", "not_json", "not_object"}}
CategoryOptions == {<<{}, "">>} \cup {<<{"category"}, c>> : c \in ResponseCategories}
SeverityOptions == {<<{}, "">>} \cup {<<{"severity"}, s>> : s \in ResponseSeverities}
ConfidenceOptions == {<<{}, NotANumber>>} \cup {<<{"confidence"}, q>> : q \in ResponseConfidences}
ObjectResponses ==
    {Response("object", c[1] \cup s[1] \cup q[1], c[2], s[2], q[2]) :
        c \in CategoryOptions, s \in SeverityOptions, q \in ConfidenceOptions}
Responses == FailedResponses \cup ObjectResponses

Raised(error) ==
    [raised |-> TRUE, error |-> error, fields |-> {}, category |-> "", severity |-> "",
     confidence |-> NotANumber, method |-> ""]
NoCall == Raised("")

\* variant: the category is checked only against a non-empty catalog
OpenAIParseSkipEmptyCatalog(categories, response) ==
    IF response.kind # "object" THEN Raised("OpenAI API error")
    ELSE IF "category" \notin response.fields \/ "severity" \notin response.fields
    THEN Raised("Invalid response format from OpenAI")
    ELSE [raised |-> FALSE, error |-> "", fields |-> response.fields,
          category |-> IF categories # <<>> /\ response.category \notin CategoryNames(categories)
                       THEN "Other" ELSE response.category,
          severity |-> IF response.severity \notin ValidSeverities
                       THEN "Medium" ELSE response.severity,
          confidence |-> response.confidence,
          method |-> "openai"]

\* variant: the category of the answer is passed through unchecked
OpenAIParseAnyCategory(categories, response) ==
    IF response.kind # "object" THEN Raised("OpenAI API error")
    ELSE IF "category" \notin response.fields \/ "severity" \notin response.fields
    THEN Raised("Invalid response format from OpenAI")
    ELSE [raised |-> FALSE, error |-> "", fields |-> response.fields,
          category |-> response.category,
          severity |-> IF response.severity \notin ValidSeverities
                       THEN "Medium" ELSE response.severity,
          confidence |-> response.confidence,
          method |-> "openai"]

\* variant: the severity of the answer is passed through unchecked
OpenAIParseAnySeverity(categories, response) ==
    IF response.kind # "object" THEN Raised("OpenAI API error")
    ELSE IF "category" \notin response.fields \/ "severity" \notin response.fields
    THEN Raised("Invalid response format from OpenAI")
    ELSE [raised |-> FALSE, error |-> "", fields |-> response.fields,
          category |-> IF response.category \notin CategoryNames(categories)
                       THEN "Other" ELSE response.category,
          severity |-> response.severity,
          confidence |-> response.confidence,
          method |-> "openai"]

\* variant: a missing severity is defaulted to Medium instead of raising
OpenAIParseDefaultSeverity(categories, response) ==
    IF response.kind # "object" THEN Raised("OpenAI API error")
    ELSE IF "category" \notin response.fields
    THEN Raised("Invalid response format from OpenAI")
    ELSE [raised |-> FALSE, error |-> "", fields |-> response.fields \cup {"severity"},
          category |-> IF response.category \notin CategoryNames(categories)
                       THEN "Other" ELSE response.category,
          severity |-> IF response.severity \notin ValidSeverities
                       THEN "Medium" ELSE response.severity,
          confidence |-> response.confidence,
          method |-> "openai"]

\* the part of openai_classification after the service answered:
\* json.loads, validation, coercion of category and severity
OpenAIParse(categories, response) ==
    IF response.kind = "transport_error" THEN Raised("OpenAI API error")
    ELSE IF response.kind = "not_json" THEN Raised("Invalid response format from OpenAI")
    ELSE IF response.kind = "not_object" THEN Raised("OpenAI API error")
    ELSE IF "category" \notin response.fields \/ "severity" \notin response.fields
    THEN Raised("Invalid response format from OpenAI")
    ELSE [raised |-> FALSE, error |-> "", fields |-> response.fields,
          category |-> IF response.category \notin CategoryNames(categories)
                       THEN "Other" ELSE response.category,
          severity |-> IF response.severity \notin ValidSeverities
                       THEN "Medium" ELSE response.severity,
          confidence |-> response.confidence,
          method |-> "openai"]

\* openai_classification, given the answer of the service to its one call
OpenAIClassification(api_key, categories, response) ==
    IF ~api_key THEN Raised("OpenAI API key not configured")
    ELSE OpenAIParse(categories, response)

\* ------------------------------------------------------------------------
\* Hybrid arbiter
\* ------------------------------------------------------------------------
\* variant: the threshold of the short-circuit set to 0.9
HighConfidenceAt09(keyword_result) == RatGE(keyword_result.confidence, Rat(9, 10))

\* if keyword_result['confidence'] >= 0.7
HighConfidence(keyword_result) == RatGE(keyword_result.confidence, Rat(7, 10))

NoResult ==
    [success |-> FALSE, category |-> "", severity |-> "", confidence |-> NotANumber,
     method |-> "", matched_keywords |-> <<>>]

\* the result of the high-confidence branch
KeywordBranch(keyword_result) ==
    [success |-> TRUE, category |-> keyword_result.category,
     severity |-> keyword_result.severity, confidence |-> keyword_result.confidence,
     method |-> "keyword", matched_keywords |-> keyword_result.matched_keywords]

\* variant: min in place of max in the floor of the fallback
FallbackBranchMinFloor(keyword_result) ==
    [success |-> TRUE, category |-> keyword_result.category,
     severity |-> keyword_result.severity,
     confidence |-> RatMin(keyword_result.confidence, Rat(3, 10)),
     method |-> "keyword_fallback", matched_keywords |-> keyword_result.matched_keywords]

\* variant: the fallback without the floor of 0.3
FallbackBranchNoFloor(keyword_result) ==
    [success |-> TRUE, category |-> keyword_result.category,
     severity |-> keyword_result.severity,
     confidence |-> keyword_result.confidence,
     method |-> "keyword_fallback", matched_keywords |-> keyword_result.matched_keywords]

\* the result of the fallback branch
FallbackBranch(keyword_result) ==
    [success |-> TRUE, category |-> keyword_result.category,
     severity |-> keyword_result.severity,
     confidence |-> RatMax(keyword_result.confidence, Rat(3, 10)),
     method |-> "keyword_fallback", matched_keywords |-> keyword_result.matched_keywords]

\* final_confidence = openai_result.get('confidence', 0.8)
AdapterConfidence(openai_result) ==
    IF "confidence" \in openai_result.fields THEN openai_result.confidence ELSE Rat(8, 10)

\* the two tiers name the same category
Agree(keyword_result, openai_result) == keyword_result.category = openai_result.category

\* min(final_confidence + 0.2, 1.0) raises TypeError on a value that is
\* not a number; the arbiter's try block catches it
CombineRaises(keyword_result, openai_result) ==
    Agree(keyword_result, openai_result) /\ ~AdapterConfidence(openai_result).isnum

\* the result of the LLM branch
HybridBranch(keyword_result, openai_result) ==
    [success |-> TRUE, category |-> openai_result.category,
     severity |-> openai_result.severity,
     confidence |-> IF Agree(keyword_result, openai_result)
                    THEN RatMin(RatAdd(AdapterConfidence(openai_result), Rat(2, 10)), Rat(1, 1))
                    ELSE AdapterConfidence(openai_result),
     method |-> "hybrid", matched_keywords |-> <<>>]

\* variant: the combination placed outside the try block, so that its
\* TypeError leaves the arbiter
AfterAdapterUncaught(keyword_result, openai_result) ==
    IF openai_result.raised THEN FallbackBranch(keyword_result)
    ELSE IF CombineRaises(keyword_result, openai_result) THEN NoResult
    ELSE HybridBranch(keyword_result, openai_result)

\* hybrid_classification after the adapter returned or raised
AfterAdapter(keyword_result, openai_result) ==
    IF openai_result.raised \/ CombineRaises(keyword_result, openai_result)
    THEN FallbackBranch(keyword_result)
    ELSE HybridBranch(keyword_result, openai_result)

\* ------------------------------------------------------------------------
\* Inputs
\* ------------------------------------------------------------------------
TitleChars == {"a", "b", "A", "!"}
RECURSIVE StringsUpTo(_)
StringsUpTo(n) ==
    IF n = 0 THEN {<<>>}
    ELSE LET shorter == StringsUpTo(n - 1)
         IN shorter \cup {Append(s, c) : s \in shorter, c \in TitleChars}
Titles == StringsUpTo(MaxTitleLen)
RECURSIVE Pad(_)
\* k filler words, none of which contains a keyword
Pad(k) == IF k = 0 THEN <<>> ELSE <<" ", "x">> \o Pad(k - 1)
PadCounts == {0, MaxPad - 6, MaxPad - 4, MaxPad}
DescriptionCores == {<<>>, <<"b">>, <<"a", "b">>}
Descriptions == {core \o Pad(k) : core \in DescriptionCores, k \in PadCounts}
Locations == {<<>>, <<"a">>}

\* ------------------------------------------------------------------------
\* Urgency scorer of enhanced_app.py
\* ------------------------------------------------------------------------
\* load_urgency_keywords
UrgentKeywords ==
    << <<"e", "m", "e", "r", "g", "e", "n", "c", "y">>,
       <<"u", "r", "g", "e", "n", "t">>,
       <<"i", "m", "m", "e", "d", "i", "a", "t", "e">>,
       <<"c", "r", "i", "t", "i", "c", "a", "l">>,
       <<"d", "a", "n", "g", "e", "r", "o", "u", "s">>,
       <<"l", "i", "f", "e", " ", "t", "h", "r", "e", "a", "t", "e", "n", "i", "n", "g">>,
       <<"a", "c", "c", "i", "d", "e", "n", "t">>,
       <<"f", "i", "r", "e">>,
       <<"f", "l", "o", "o", "d">>,
       <<"m", "e", "d", "i", "c", "a", "l">>,
       <<"d", "e", "a", "t", "h">>,
       <<"s", "e", "r", "i", "o", "u", "s", " ", "i", "n", "j", "u", "r", "y">>,
       <<"b", "r", "e", "a", "k", "d", "o", "w", "n">>,
       <<"m", "a", "j", "o", "r", " ", "l", "e", "a", "k">>,
       <<"e", "x", "p", "l", "o", "s", "i", "o", "n">>,
       <<"c", "o", "l", "l", "a", "p", "s", "e">>,
       <<"a", "m", "b", "u", "l", "a", "n", "c", "e", " ", "n", "e", "e", "d", "e", "d">> >>
HighKeywords ==
    << <<"s", "e", "v", "e", "r", "e">>,
       <<"m", "a", "j", "o", "r">>,
       <<"s", "i", "g", "n", "i", "f", "i", "c", "a", "n", "t">>,
       <<"w", "i", "d", "e", "s", "p", "r", "e", "a", "d">>,
       <<"a", "f", "f", "e", "c", "t", "i", "n", "g", " ", "m", "a", "n", "y">>,
       <<"r", "o", "a", "d", " ", "b", "l", "o", "c", "k", "e", "d">>,
       <<"p", "o", "w", "e", "r", " ", "o", "u", "t", "a", "g", "e">>,
       <<"w", "a", "t", "e", "r", " ", "s", "h", "o", "r", "t", "a", "g", "e">>,
       <<"h", "e", "a", "l", "t", "h", " ", "h", "a", "z", "a", "r", "d">>,
       <<"s", "a", "f", "e", "t", "y", " ", "c", "o", "n", "c", "e", "r", "n">>,
       <<"p", "u", "b", "l", "i", "c", " ", "h", "e", "a", "l", "t", "h">>,
       <<"b", "r", "o", "k", "e", "n">>,
       <<"d", "a", "m", "a", "g", "e", "d">> >>
MediumKeywords ==
    << <<"p", "r", "o", "b", "l", "e", "m">>,
       <<"i", "s", "s", "u", "e">>,
       <<"c", "o", "n", "c", "e", "r", "n">>,
       <<"c", "o", "m", "p", "l", "a", "i", "n", "t">>,
       <<"n", "e", "e", "d", "s", " ", "a", "t", "t", "e", "n", "t", "i", "o", "n">>,
       <<"m", "a", "i", "n", "t", "e", "n", "a", "n", "c", "e", " ", "r", "e", "q", "u", "i", "r", "e", "d">>,
       <<"r", "e", "p", "a", "i", "r", " ", "n", "e", "e", "d", "e", "d">>,
       <<"i", "m", "p", "r", "o", "v", "e", "m", "e", "n", "t", " ", "n", "e", "e", "d", "e", "d">> >>
\* the levels in the order of the dict, with the score each raises to
UrgencyLevels ==
    << [level |-> "urgent", keywords |-> UrgentKeywords, score |-> 8],
       [level |-> "high", keywords |-> HighKeywords, score |-> 6],
       [level |-> "medium", keywords |-> MediumKeywords, score |-> 4] >>
\* the health and safety terms of the boost
BoostWords ==
    << <<"h", "e", "a", "l", "t", "h">>,
       <<"m", "e", "d", "i", "c", "a", "l">>,
       <<"s", "a", "f", "e", "t", "y">>,
       <<"d", "a", "n", "g", "e", "r">>,
       <<"e", "m", "e", "r", "g", "e", "n", "c", "y">> >>

Max(a, b) == IF a >= b THEN a ELSE b
Min(a, b) == IF a <= b THEN a ELSE b

\* variant: a matching keyword sets the score of its level
RaiseToAssign(urgency_score, score) == score

\* urgency_score = max(urgency_score, 8 | 6 | 4)
RaiseTo(urgency_score, score) == Max(urgency_score, score)

RECURSIVE ScanKeywords(_, _, _, _)
\* the inner loop over the keywords of one level
ScanKeywords(urgency_score, keywords, score, text) ==
    IF keywords = <<>> THEN urgency_score
    ELSE ScanKeywords(IF Contains(Head(keywords), text)
                      THEN RaiseTo(urgency_score, score) ELSE urgency_score,
                      Tail(keywords), score, text)

RECURSIVE ScanLevels(_, _, _)
\* the outer loop over the levels
ScanLevels(urgency_score, levels, text) ==
    IF levels = <<>> THEN urgency_score
    ELSE ScanLevels(ScanKeywords(urgency_score, Head(levels).keywords, Head(levels).score, text),
                    Tail(levels), text)

\* any(word in text for word in words)
AnyIn(words, text) == \E i \in 1..Len(words) : Contains(words[i], text)

\* calculate_urgency
CalculateUrgency(text) ==
    LET urgency_score == ScanLevels(1, UrgencyLevels, text)
    IN IF AnyIn(BoostWords, text) THEN Min(urgency_score + 2, 10) ELSE urgency_score

\* texts: up to MaxUrgencyWords words of a vocabulary, separated by spaces
UrgencyVocabulary ==
    { <<"e", "m", "e", "r", "g", "e", "n", "c", "y">>,
      <<"e", "x", "p", "l", "o", "s", "i", "o", "n">>,
      <<"s", "e", "v", "e", "r", "e">>,
      <<"p", "r", "o", "b", "l", "e", "m">>,
      <<"s", "a", "f", "e", "t", "y">>,
      <<"p", "o", "t", "h", "o", "l", "e">> }
RECURSIVE Phrases(_, _)
Phrases(words, n) ==
    IF n = 0 THEN {<<>>}
    ELSE LET shorter == Phrases(words, n - 1)
         IN shorter \cup {IF p = <<>> THEN w ELSE p \o <<" ">> \o w : p \in shorter, w \in words}
UrgencyTexts == Phrases(UrgencyVocabulary, MaxUrgencyWords)

\* ------------------------------------------------------------------------
\* Location validator of enhanced_app.py
\* ------------------------------------------------------------------------
\* load_jharkhand_data: the gazetteer, in the order of the list
Districts ==
    << <<"B", "o", "k", "a", "r", "o">>,
       <<"C", "h", "a", "t", "r", "a">>,
       <<"D", "e", "o", "g", "h", "a", "r">>,
       <<"D", "h", "a", "n", "b", "a", "d">>,
       <<"D", "u", "m", "k", "a">>,
       <<"E", "a", "s", "t", " ", "S", "i", "n", "g", "h", "b", "h", "u", "m">>,
       <<"G", "a", "r", "h", "w", "a">>,
       <<"G", "i", "r", "i", "d", "i", "h">>,
       <<"G", "o", "d", "d", "a">>,
       <<"G", "u", "m", "l", "a">>,
       <<"H", "a", "z", "a", "r", "i", "b", "a", "g", "h">>,
       <<"J", "a", "m", "t", "a", "r", "a">>,
       <<"K", "h", "u", "n", "t", "i">>,
       <<"K", "o", "d", "e", "r", "m", "a">>,
       <<"L", "a", "t", "e", "h", "a", "r">>,
       <<"L", "o", "h", "a", "r", "d", "a", "g", "a">>,
       <<"P", "a", "k", "u", "r">>,
       <<"P", "a", "l", "a", "m", "u">>,
       <<"R", "a", "m", "g", "a", "r", "h">>,
       <<"R", "a", "n", "c", "h", "i">>,
       <<"S", "a", "h", "i", "b", "g", "a", "n", "j">>,
       <<"S", "e", "r", "a", "i", "k", "e", "l", "a", " ", "K", "h", "a", "r", "s", "a", "w", "a", "n">>,
       <<"S", "i", "m", "d", "e", "g", "a">>,
       <<"W", "e", "s", "t", " ", "S", "i", "n", "g", "h", "b", "h", "u", "m">> >>
TribalDistricts ==
    << <<"K", "h", "u", "n", "t", "i">>,
       <<"G", "u", "m", "l", "a">>,
       <<"S", "i", "m", "d", "e", "g", "a">>,
       <<"L", "a", "t", "e", "h", "a", "r">>,
       <<"P", "a", "k", "u", "r">>,
       <<"D", "u", "m", "k", "a">>,
       <<"S", "a", "h", "i", "b", "g", "a", "n", "j">>,
       <<"G", "o", "d", "d", "a">> >>
MiningDistricts ==
    << <<"D", "h", "a", "n", "b", "a", "d">>,
       <<"B", "o", "k", "a", "r", "o">>,
       <<"R", "a", "m", "g", "a", "r", "h">>,
       <<"E", "a", "s", "t", " ", "S", "i", "n", "g", "h", "b", "h", "u", "m">>,
       <<"W", "e", "s", "t", " ", "S", "i", "n", "g", "h", "b", "h", "u", "m">> >>
UrbanDistricts ==
    << <<"R", "a", "n", "c", "h", "i">>,
       <<"J", "a", "m", "s", "h", "e", "d", "p", "u", "r">>,
       <<"D", "h", "a", "n", "b", "a", "d">>,
       <<"B", "o", "k", "a", "r", "o">>,
       <<"D", "e", "o", "g", "h", "a", "r">> >>

\* coordinates in units of 1/10000 degree; None is NoCoordinates
NoCoordinates == [isnull |-> TRUE, lat |-> 0, lon |-> 0]
Coordinates(lat, lon) == [isnull |-> FALSE, lat |-> lat, lon |-> lon]
\* district_coordinates.get(district)
DistrictCoordinates(district) ==
    CASE district = <<"R", "a", "n", "c", "h", "i">> -> Coordinates(233441, 853096)
      [] district = <<"J", "a", "m", "s", "h", "e", "d", "p", "u", "r">> -> Coordinates(228046, 862029)
      [] district = <<"D", "h", "a", "n", "b", "a", "d">> -> Coordinates(237957, 864304)
      [] district = <<"B", "o", "k", "a", "r", "o">> -> Coordinates(236693, 859590)
      [] OTHER -> NoCoordinates

\* the keyword lists of the area types
MiningWords == << <<"m", "i", "n", "e">>,
               <<"m", "i", "n", "i", "n", "g">>,
               <<"c", "o", "a", "l">> >>
TribalWords == << <<"t", "r", "i", "b", "a", "l">>,
               <<"v", "i", "l", "l", "a", "g", "e">>,
               <<"g", "r", "a", "m">> >>
UrbanWords == << <<"c", "i", "t", "y">>,
              <<"u", "r", "b", "a", "n">>,
              <<"m", "u", "n", "i", "c", "i", "p", "a", "l", "i", "t", "y">> >>
NoType == [isnull |-> TRUE, name |-> ""]
AreaTypeOf(name) == [isnull |-> FALSE, name |-> name]

\* district.lower() in location_lower
DistrictIn(i, location_lower) == Contains(LowerStr(Districts[i]), location_lower)

\* variant: the loop over the districts does not stop at the first mention
FirstDistrictNoBreak(location_lower) ==
    LET hits == {i \in 1..Len(Districts) : DistrictIn(i, location_lower)}
    IN IF hits = {} THEN 0 ELSE CHOOSE i \in hits : \A j \in hits : j <= i

\* the loop over the districts with its break: index of the district found, 0 if none
FirstDistrict(location_lower) ==
    LET hits == {i \in 1..Len(Districts) : DistrictIn(i, location_lower)}
    IN IF hits = {} THEN 0 ELSE CHOOSE i \in hits : \A j \in hits : i <= j

\* the if / elif / elif over the area types
AreaType(location_lower) ==
    IF AnyIn(MiningWords, location_lower) THEN AreaTypeOf("mining")
    ELSE IF AnyIn(TribalWords, location_lower) THEN AreaTypeOf("rural/tribal")
    ELSE IF AnyIn(UrbanWords, location_lower) THEN AreaTypeOf("urban")
    ELSE NoType

\* the districts an area type suggests
TypeDistricts(type) ==
    IF type.isnull THEN <<>>
    ELSE IF type.name = "mining" THEN MiningDistricts
    ELSE IF type.name = "rural/tribal" THEN TribalDistricts
    ELSE UrbanDistricts

\* any(part in location_lower for part in district.lower().split())
PartIn(district, location_lower) == AnyIn(Split(LowerStr(district)), location_lower)

\* the districts one of whose words occurs in the location, in gazetteer order
PartialMatches(location_lower) ==
    LET Test(district) == PartIn(district, location_lower)
    IN SelectSeq(Districts, Test)

\* variant: the partial pass runs whether or not a district was found
PartialPassAlways(valid, type, location_lower) == PartialMatches(location_lower)

\* variant: the partial pass runs only when no area type matched either
PartialPassIfNothing(valid, type, location_lower) ==
    IF ~valid /\ type.isnull THEN PartialMatches(location_lower) ELSE <<>>

\* if not result['valid']: the partial matches appended to the suggestions
PartialPass(valid, type, location_lower) ==
    IF ~valid THEN PartialMatches(location_lower) ELSE <<>>

\* validate_jharkhand_location; keys are the keys of the dict returned
ValidateJharkhandLocation(location_text) ==
    IF location_text.isnull \/ location_text.chars = <<>>
    THEN [keys |-> {"valid", "suggestions"}, valid |-> FALSE, district |-> NullText,
          suggestions |-> <<>>, coordinates |-> NoCoordinates, type |-> NoType]
    ELSE LET location_lower == LowerStr(location_text.chars)
             found == FirstDistrict(location_lower)
             valid == found # 0
             type == AreaType(location_lower)
         IN [keys |-> {"valid", "district", "suggestions", "coordinates", "type"},
             valid |-> valid,
             district |-> IF valid THEN Text(Districts[found]) ELSE NullText,
             suggestions |-> (IF valid THEN <<>> ELSE TypeDistricts(type))
                                 \o PartialPass(valid, type, location_lower),
             coordinates |-> IF valid THEN DistrictCoordinates(Districts[found])
                             ELSE NoCoordinates,
             type |-> type]

\* locations: None, '' and up to MaxLocationWords words separated by spaces
LocationVocabulary ==
    { <<"R", "a", "n", "c", "h", "i">>,
      <<"B", "o", "k", "a", "r", "o">>,
      <<"G", "u", "m", "l", "a">>,
      <<"e", "a", "s", "t">>,
      <<"s", "i", "n", "g", "h", "b", "h", "u", "m">>,
      <<"c", "o", "a", "l">>,
      <<"v", "i", "l", "l", "a", "g", "e">>,
      <<"c", "i", "t", "y">>,
      <<"m", "a", "r", "k", "e", "t">> }
LocationTexts ==
    {NullText} \cup {Text(p) : p \in Phrases(LocationVocabulary, MaxLocationWords)}
NoLocationResult ==
    [keys |-> {}, valid |-> FALSE, district |-> NullText, suggestions |-> <<>>,
     coordinates |-> NoCoordinates, type |-> NoType]

\* ------------------------------------------------------------------------
\* State
\* ------------------------------------------------------------------------
VARIABLES
    categories,      \* self.categories
    openai_api_key,  \* whether self.openai_api_key is set
    pc,              \* position of the request being served
    title, description, location,
    keyword_result,  \* local of hybrid_classification
    response,        \* what the service answered to the outbound call
    openai_result,   \* what the adapter returned or raised
    result,          \* what hybrid_classification returned
    llm_calls,       \* outbound calls to the service made for this request
    text_in,         \* argument of a call of preprocess_text
    text_out,        \* what that call returned
    urgency_in,      \* argument of a call of calculate_urgency
    urgency_out,     \* what that call returned
    location_in,     \* argument of a call of validate_jharkhand_location
    location_out,    \* what that call returned
    request,         \* JSON body of the /classify request being handled
    reply            \* the error reply of the route, if it made one

\* arguments and results of the functions called on their own
auxvars == <<text_in, text_out, urgency_in, urgency_out, location_in, location_out>>

\* the request and reply of the /classify routes
routevars == <<request, reply>>

vars == <<categories, openai_api_key, pc, title, description, location,
          keyword_result, response, openai_result, result, llm_calls, auxvars, routevars>>

\* no request: the function was called directly
NoRequest ==
    [present |-> FALSE, fields |-> {}, title |-> <<>>, description |-> <<>>,
     text |-> <<>>, location |-> <<>>]
NoReply == [status |-> 0, success |-> FALSE, error |-> ""]
\* jsonify({'success': False, 'error': error}), 400
ErrorReply(error) == [status |-> 400, success |-> FALSE, error |-> error]

\* no answer (yet)
NoResponse == Response("none", {}, "", "", NotANumber)

NoKeywordResult ==
    [category |-> "", severity |-> "", confidence |-> NotANumber, method |-> "",
     matched_keywords |-> <<>>, category_scores |-> <<>>, severity_scores |-> <<>>]

\* RAGClassifier.__init__
Init ==
    /\ categories \in LoadCategories
    /\ openai_api_key \in BOOLEAN
    /\ pc = "idle"
    /\ title = <<>> /\ description = <<>> /\ location = <<>>
    /\ keyword_result = NoKeywordResult
    /\ response = NoResponse
    /\ openai_result = NoCall
    /\ result = NoResult
    /\ llm_calls = 0
    /\ text_in = NullText /\ text_out = <<>>
    /\ urgency_in = <<>> /\ urgency_out = 0
    /\ location_in = NullText /\ location_out = NoLocationResult
    /\ request = NoRequest /\ reply = NoReply

\* hybrid_classification up to its return or to the adapter's outbound call
HybridStart(t, d, l) ==
    /\ pc = "idle"
    /\ title' = t /\ description' = d /\ location' = l
    /\ LET kr == KeywordClassification(categories, t, d)
       IN /\ keyword_result' = kr
          /\ IF HighConfidence(kr)
             THEN /\ result' = KeywordBranch(kr)
                  /\ pc' = "done"
                  /\ llm_calls' = llm_calls
             ELSE IF openai_api_key
             THEN /\ result' = result
                  /\ pc' = "llm_wait"
                  /\ llm_calls' = llm_calls + 1
             ELSE /\ result' = FallbackBranch(kr)
                  /\ pc' = "done"
                  /\ llm_calls' = llm_calls
    /\ UNCHANGED <<categories, openai_api_key, response, openai_result>>

\* hybrid_classification called directly
HybridClassification(t, d, l) ==
    /\ HybridStart(t, d, l)
    /\ UNCHANGED auxvars
    /\ UNCHANGED routevars

\* variant: a failed adapter call is tried once more before the fallback
HybridAdapterReturnRetry(answer) ==
    /\ pc = "llm_wait"
    /\ response' = answer
    /\ LET r == OpenAIClassification(openai_api_key, categories, answer)
       IN /\ openai_result' = r
          /\ IF r.raised /\ llm_calls < 2
             THEN /\ result' = result
                  /\ pc' = "llm_wait"
                  /\ llm_calls' = llm_calls + 1
             ELSE /\ result' = AfterAdapter(keyword_result, r)
                  /\ pc' = "done"
                  /\ llm_calls' = llm_calls
    /\ UNCHANGED <<categories, openai_api_key, title, description, location,
                   keyword_result>>
    /\ UNCHANGED auxvars
    /\ UNCHANGED routevars

\* the service answers; the adapter parses, the arbiter combines or falls back
HybridAdapterReturn(answer) ==
    /\ pc = "llm_wait"
    /\ response' = answer
    /\ LET r == OpenAIClassification(openai_api_key, categories, answer)
       IN /\ openai_result' = r
          /\ result' = AfterAdapter(keyword_result, r)
    /\ pc' = "done"
    /\ UNCHANGED <<categories, openai_api_key, title, description, location,
                   keyword_result, llm_calls>>
    /\ UNCHANGED auxvars
    /\ UNCHANGED routevars

\* openai_classification called on its own (as the /test route and unit
\* tests do): without a credential it raises before any call is made
AdapterCall(l) ==
    /\ pc = "idle"
    /\ location' = l
    /\ IF ~openai_api_key
       THEN /\ openai_result' = OpenAIClassification(openai_api_key, categories, NoResponse)
            /\ pc' = "adapter_done"
            /\ llm_calls' = llm_calls
       ELSE /\ openai_result' = openai_result
            /\ pc' = "adapter_wait"
            /\ llm_calls' = llm_calls + 1
    /\ UNCHANGED <<categories, openai_api_key, title, description, keyword_result,
                   response, result>>
    /\ UNCHANGED auxvars
    /\ UNCHANGED routevars

\* the service answers a call made by AdapterCall
AdapterReturn(answer) ==
    /\ pc = "adapter_wait"
    /\ response' = answer
    /\ openai_result' = OpenAIClassification(openai_api_key, categories, answer)
    /\ pc' = "adapter_done"
    /\ UNCHANGED <<categories, openai_api_key, title, description, location,
                   keyword_result, result, llm_calls>>
    /\ UNCHANGED auxvars
    /\ UNCHANGED routevars

\* the variables of hybrid_classification and of the adapter
hybridvars == <<title, description, location, keyword_result, response,
                openai_result, result, llm_calls>>

\* strings over a set of characters, up to a length
RECURSIVE StringsOver(_, _)
StringsOver(chars, n) ==
    IF n = 0 THEN {<<>>}
    ELSE LET shorter == StringsOver(chars, n - 1)
         IN shorter \cup {Append(s, c) : s \in shorter, c \in chars}
NormChars == {"a", "A", "!", " ", "\t"}
NormArguments == {NullText} \cup {Text(s) : s \in StringsOver(NormChars, MaxTextLen)}

\* preprocess_text called on its own
NormalizeText(v) ==
    /\ pc = "idle"
    /\ text_in' = v
    /\ text_out' = PreprocessArgument(v)
    /\ pc' = "normalized"
    /\ UNCHANGED <<categories, openai_api_key, urgency_in, urgency_out, location_in, location_out>>
    /\ UNCHANGED hybridvars
    /\ UNCHANGED routevars

\* calculate_urgency called on its own
CalculateUrgencyCall(text) ==
    /\ pc = "idle"
    /\ urgency_in' = text
    /\ urgency_out' = CalculateUrgency(text)
    /\ pc' = "urgency_done"
    /\ UNCHANGED <<categories, openai_api_key, text_in, text_out, location_in, location_out>>
    /\ UNCHANGED hybridvars
    /\ UNCHANGED routevars

\* validate_jharkhand_location called on its own
ValidateLocationCall(text) ==
    /\ pc = "idle"
    /\ location_in' = text
    /\ location_out' = ValidateJharkhandLocation(text)
    /\ pc' = "location_done"
    /\ UNCHANGED <<categories, openai_api_key, text_in, text_out, urgency_in, urgency_out>>
    /\ UNCHANGED hybridvars
    /\ UNCHANGED routevars

\* ------------------------------------------------------------------------
\* The /classify routes
\* ------------------------------------------------------------------------
RECURSIVE LStrip(_)
LStrip(s) == IF s # <<>> /\ IsSpaceChar(Head(s)) THEN LStrip(Tail(s)) ELSE s
RECURSIVE RStrip(_)
RStrip(s) ==
    IF s # <<>> /\ IsSpaceChar(s[Len(s)]) THEN RStrip(SubSeq(s, 1, Len(s) - 1)) ELSE s
\* str.strip()
Strip(s) == RStrip(LStrip(s))

\* data.get(field, '')
Get(data, field) == IF field \in data.fields THEN data[field] ELSE <<>>

\* values of the text field: 9 characters between spaces, and 19 characters
RequestTexts ==
    { <<>>,
      <<" ", "e", "m", "e", "r", "g", "e", "n", "c", "y", " ">>,
      <<"E", "m", "e", "r", "g", "e", "n", "c", "y", " ", "e", "x", "p", "l", "o", "s", "i", "o", "n">> }
RequestLocations == {<<>>, <<"R", "a", "n", "c", "h", "i">>}
\* the JSON objects posted to /classify; fields are the keys of the object
Requests ==
    { [present |-> TRUE, fields |-> f,
       title |-> IF "title" \in f THEN t ELSE <<>>,
       description |-> IF "description" \in f THEN d ELSE <<>>,
       text |-> IF "text" \in f THEN x ELSE <<>>,
       location |-> IF "location" \in f THEN l ELSE <<>>] :
      f \in SUBSET {"title", "description", "text", "location"},
      t \in {<<>>, <<"a">>}, d \in {<<>>, <<"b">>}, x \in RequestTexts, l \in RequestLocations }

\* variant: the text field counts as a text of the complaint
TitleOrDescriptionOrText(data) ==
    Get(data, "title") # <<>> \/ Get(data, "description") # <<>> \/ Get(data, "text") # <<>>

\* not (not title and not description)
TitleOrDescription(data) ==
    Get(data, "title") # <<>> \/ Get(data, "description") # <<>>

\* the route of app.py
ClassifyComplaint(data) ==
    /\ pc = "idle"
    /\ request' = data
    /\ IF data.fields = {}
       THEN /\ reply' = ErrorReply("No data provided")
            /\ pc' = "rejected"
            /\ UNCHANGED <<categories, openai_api_key>>
            /\ UNCHANGED hybridvars
       ELSE IF ~TitleOrDescription(data)
       THEN /\ reply' = ErrorReply("Title or description required")
            /\ pc' = "rejected"
            /\ UNCHANGED <<categories, openai_api_key>>
            /\ UNCHANGED hybridvars
       ELSE /\ HybridStart(Get(data, "title"), Get(data, "description"), Get(data, "location"))
            /\ reply' = NoReply
    /\ UNCHANGED auxvars

\* the route of enhanced_app.py; of the data of an accepted request the
\* urgency level and the location validation are kept
EnhancedClassifyComplaint(data) ==
    /\ pc = "idle"
    /\ request' = data
    /\ IF data.fields = {} \/ "text" \notin data.fields
       THEN /\ reply' = ErrorReply("Missing 'text' field in request")
            /\ pc' = "enhanced_rejected"
            /\ UNCHANGED <<urgency_in, urgency_out, location_in, location_out>>
       ELSE LET stripped == Strip(data.text)
                where == Get(data, "location")
            IN IF Len(stripped) < 10
               THEN /\ reply' = ErrorReply("Text must be at least 10 characters long")
                    /\ pc' = "enhanced_rejected"
                    /\ UNCHANGED <<urgency_in, urgency_out, location_in, location_out>>
               ELSE /\ reply' = NoReply
                    /\ pc' = "enhanced_done"
                    /\ urgency_in' = LowerStr(stripped)
                    /\ urgency_out' = CalculateUrgency(LowerStr(stripped))
                    /\ location_in' = Text(where)
                    /\ location_out' = IF where # <<>>
                                       THEN ValidateJharkhandLocation(Text(where))
                                       ELSE NoLocationResult
    /\ UNCHANGED <<categories, openai_api_key, text_in, text_out>>
    /\ UNCHANGED hybridvars

\* the request is answered; the next one starts from fresh locals
Return ==
    /\ pc \in {"done", "adapter_done", "normalized", "urgency_done", "location_done",
              "rejected", "enhanced_rejected", "enhanced_done"}
    /\ pc' = "idle"
    /\ title' = <<>> /\ description' = <<>> /\ location' = <<>>
    /\ keyword_result' = NoKeywordResult
    /\ response' = NoResponse
    /\ openai_result' = NoCall
    /\ result' = NoResult
    /\ llm_calls' = 0
    /\ text_in' = NullText /\ text_out' = <<>>
    /\ urgency_in' = <<>> /\ urgency_out' = 0
    /\ location_in' = NullText /\ location_out' = NoLocationResult
    /\ request' = NoRequest /\ reply' = NoReply
    /\ UNCHANGED <<categories, openai_api_key>>

Next ==
    \/ \E t \in Titles, d \in Descriptions, l \in Locations : HybridClassification(t, d, l)
    \/ \E answer \in Responses : HybridAdapterReturn(answer)
    \/ \E l \in Locations : AdapterCall(l)
    \/ \E answer \in Responses : AdapterReturn(answer)
    \/ \E v \in NormArguments : NormalizeText(v)
    \/ \E text \in UrgencyTexts : CalculateUrgencyCall(text)
    \/ \E text \in LocationTexts : ValidateLocationCall(text)
    \/ \E data \in Requests : ClassifyComplaint(data)
    \/ \E data \in Requests : EnhancedClassifyComplaint(data)
    \/ Return

Spec == Init /\ [][Next]_vars

\* ------------------------------------------------------------------------
\* Properties
\* ------------------------------------------------------------------------
\* keyword_classification has run for the request being served
HybridRan == pc \in {"llm_wait", "done"}
\* hybrid_classification has returned
Returned == pc = "done"
\* the adapter was called and answered
AdapterAnswered == response.kind # "none"
\* the confidence of the keyword tier is below the threshold
LowConfidence == RatLT(keyword_result.confidence, Rat(7, 10))
\* the normalized text of the request being served
RequestText == PreprocessText(title \o <<" ">> \o description)
\* indices of the keywords of catalog entry i that occur in the request
MatchIdx(i) ==
    LET text == RequestText
    IN {j \in 1..Len(categories[i].keywords) :
            Contains(LowerStr(categories[i].keywords[j]), text)}
MatchCount(i) == Cardinality(MatchIdx(i))
NothingMatches == \A i \in 1..Len(categories) : MatchCount(i) = 0
Catalogued(c) == c = "Other" \/ \E i \in 1..Len(categories) : categories[i].name = c
InUnitInterval(q) == q.isnum /\ RatLE(Rat(0, 1), q) /\ RatLE(q, Rat(1, 1))

\* C1: whenever the keyword tier's confidence is >= 0.7 the arbiter has
\* returned without any call to the LLM adapter, with or without a
\* credential, and its result is the keyword tier's category, severity and
\* unchanged confidence with method 'keyword'.
C1_HighConfidenceSkipsLLM ==
    (HybridRan /\ RatGE(keyword_result.confidence, Rat(7, 10))) =>
        /\ Returned
        /\ llm_calls = 0
        /\ ~AdapterAnswered
        /\ result.success
        /\ result.method = "keyword"
        /\ result.category = keyword_result.category
        /\ result.severity = keyword_result.severity
        /\ result.confidence = keyword_result.confidence

C1_Witness ==
    /\ Returned /\ openai_api_key
    /\ RatGE(keyword_result.confidence, Rat(7, 10))
    /\ RatLT(keyword_result.confidence, Rat(9, 10))
    /\ result.method = "keyword" /\ llm_calls = 0

\* C2: the arbiter is total: whatever the service answers, a pending adapter
\* call can complete, and every return of the arbiter carries success = true
\* through exactly one of the branches keyword, hybrid, keyword_fallback; an
\* adapter error is answered by the fallback, never by a failure.
C2_ArbiterTotal ==
    /\ pc = "llm_wait" => \A answer \in Responses : ENABLED HybridAdapterReturn(answer)
    /\ Returned =>
        /\ result.success
        /\ result.method \in {"keyword", "hybrid", "keyword_fallback"}
        /\ (AdapterAnswered /\ openai_result.raised) => result.method = "keyword_fallback"

C2_Witness ==
    /\ Returned /\ AdapterAnswered /\ openai_result.raised
    /\ response.kind = "not_json"
    /\ result.success /\ result.method = "keyword_fallback"

\* C3: with keyword confidence < 0.7 and either no credential or a failed
\* adapter call, the arbiter returns the keyword tier's category and
\* severity with method 'keyword_fallback' and confidence
\* max(keyword confidence, 0.3).
C3_FallbackFloor ==
    (Returned /\ LowConfidence
        /\ (~openai_api_key \/ (AdapterAnswered /\ openai_result.raised))) =>
        /\ result.method = "keyword_fallback"
        /\ result.category = keyword_result.category
        /\ result.severity = keyword_result.severity
        /\ result.confidence.isnum
        /\ IF RatLT(keyword_result.confidence, Rat(3, 10))
           THEN RatEq(result.confidence, Rat(3, 10))
           ELSE RatEq(result.confidence, keyword_result.confidence)

C3_Witness ==
    /\ Returned /\ ~openai_api_key /\ llm_calls = 0
    /\ RatLT(keyword_result.confidence, Rat(3, 10))
    /\ result.method = "keyword_fallback"
    /\ RatEq(result.confidence, Rat(3, 10))

\* C4: with keyword confidence < 0.7, a credential and a successful adapter
\* call, the result has the adapter's category and severity, method
\* 'hybrid', and the adapter's confidence (0.8 when absent), raised by 0.2
\* and capped at 1.0 exactly when the two tiers name the same category.
C4_HybridTakesAdapterResult ==
    (Returned /\ LowConfidence /\ openai_api_key /\ AdapterAnswered /\ ~openai_result.raised) =>
        /\ result.method = "hybrid"
        /\ result.category = openai_result.category
        /\ result.severity = openai_result.severity
        /\ LET given == IF "confidence" \in response.fields
                        THEN response.confidence ELSE Rat(8, 10)
               boosted == RatAdd(given, Rat(2, 10))
           IN IF keyword_result.category = openai_result.category
              THEN /\ result.confidence.isnum
                   /\ IF RatLE(boosted, Rat(1, 1))
                      THEN RatEq(result.confidence, boosted)
                      ELSE RatEq(result.confidence, Rat(1, 1))
              ELSE result.confidence = given

\* C5: the confidence of the keyword tier's result and of every result of
\* the arbiter is a number in [0, 1].
C5_ConfidenceInUnitInterval ==
    /\ HybridRan => InUnitInterval(keyword_result.confidence)
    /\ Returned => InUnitInterval(result.confidence)

\* C6: the category of every result of the keyword tier, of the adapter and
\* of the arbiter is a catalog name or 'Other'; an answer naming a category
\* outside the catalog does not make the adapter fail, is coerced to
\* 'Other', and the arbiter then returns 'Other' with success = true.
C6_CategoryCatalogued ==
    /\ HybridRan => Catalogued(keyword_result.category)
    /\ (AdapterAnswered /\ ~openai_result.raised) => Catalogued(openai_result.category)
    /\ Returned => Catalogued(result.category)
    /\ (AdapterAnswered /\ response.kind = "object"
            /\ {"category", "severity"} \subseteq response.fields
            /\ \A i \in 1..Len(categories) : categories[i].name # response.category) =>
        /\ ~openai_result.raised
        /\ openai_result.category = "Other"
        /\ Returned => (result.success /\ result.category = "Other")

C6_Witness ==
    /\ Returned /\ AdapterAnswered
    /\ categories # <<>>
    /\ response.category = "Foobar" /\ "severity" \in response.fields
    /\ openai_result.category = "Other"
    /\ result.success /\ result.method = "hybrid" /\ result.category = "Other"

\* C7: the severity of every result of the keyword tier and of the arbiter
\* is Low, Medium, High or Critical; an answer with a severity outside that
\* set does not make the adapter fail and is coerced to Medium.
C7_SeverityValid ==
    /\ HybridRan => keyword_result.severity \in {"Low", "Medium", "High", "Critical"}
    /\ Returned => result.severity \in {"Low", "Medium", "High", "Critical"}
    /\ (AdapterAnswered /\ response.kind = "object"
            /\ {"category", "severity"} \subseteq response.fields
            /\ response.severity \notin {"Low", "Medium", "High", "Critical"}) =>
        (~openai_result.raised /\ openai_result.severity = "Medium")

C7_Witness ==
    /\ Returned /\ AdapterAnswered
    /\ response.severity = "Urgent" /\ "category" \in response.fields
    /\ ~openai_result.raised /\ openai_result.severity = "Medium"
    /\ result.method = "hybrid" /\ result.severity = "Medium"

\* C8: the adapter raises, and returns no result, when the call fails, when
\* the completion is not JSON, when it lacks 'category' or 'severity', and
\* when no credential is configured (then before any call is made).
C8_AdapterRaisesOnBadPayload ==
    /\ (AdapterAnswered /\ response.kind \in {"transport_error", "not_json"}) =>
            openai_result.raised
    /\ (AdapterAnswered /\ response.kind = "object"
            /\ ("category" \notin response.fields \/ "severity" \notin response.fields)) =>
            openai_result.raised
    /\ (pc = "adapter_done" /\ ~openai_api_key) =>
            (openai_result.raised /\ llm_calls = 0 /\ ~AdapterAnswered)

C8_Witness ==
    /\ pc = "adapter_done" /\ openai_api_key /\ AdapterAnswered
    /\ response.kind = "object"
    /\ "category" \in response.fields /\ "severity" \notin response.fields
    /\ openai_result.raised

\* C9: when no keyword of any catalog category occurs in the normalized
\* text, the keyword tier returns 'Other' with no matched keywords, an empty
\* category_scores and confidence 0.
C9_NoMatchGivesOther ==
    (HybridRan /\ NothingMatches) =>
        /\ keyword_result.category = "Other"
        /\ keyword_result.matched_keywords = <<>>
        /\ keyword_result.category_scores = <<>>
        /\ keyword_result.confidence.isnum
        /\ RatEq(keyword_result.confidence, Rat(0, 1))

C9_Witness ==
    /\ HybridRan /\ NothingMatches
    /\ categories # <<>>
    /\ Len(Split(RequestText)) > 0
    /\ keyword_result.category = "Other"

\* the k-th smallest element of a set of indices
KthOf(idx, k) == CHOOSE j \in idx : Cardinality({m \in idx : m < j}) = k - 1

\* C10: when some category matches, the keyword tier returns a category
\* with the highest match count over the whole catalog, the first such in
\* catalog order, never one without a match, together with exactly that
\* category's matched keywords in keyword-list order.
C10_BestCategory ==
    (HybridRan /\ ~NothingMatches) =>
        \E i \in 1..Len(categories) :
            /\ keyword_result.category = categories[i].name
            /\ MatchCount(i) > 0
            /\ \A j \in 1..Len(categories) : MatchCount(j) <= MatchCount(i)
            /\ \A j \in 1..(i - 1) : MatchCount(j) < MatchCount(i)
            /\ Len(keyword_result.matched_keywords) = MatchCount(i)
            /\ \A k \in 1..MatchCount(i) :
                 keyword_result.matched_keywords[k] = categories[i].keywords[KthOf(MatchIdx(i), k)]

C10_Witness ==
    /\ HybridRan /\ Len(categories) = 2
    /\ MatchCount(1) = MatchCount(2) /\ MatchCount(1) > 0
    /\ keyword_result.category = categories[1].name

\* indicators of severity `level` that occur in the request, over the whole
\* catalog: pairs <<category index, indicator index>>
LevelHits(level) ==
    LET text == RequestText
    IN UNION {{<<i, j>> : j \in {m \in 1..Len(categories[i].severity_indicators[level]) :
                                Contains(LowerStr(categories[i].severity_indicators[level][m]), text)}} :
              i \in {c \in 1..Len(categories) : level \in DOMAIN categories[c].severity_indicators}}
LevelCount(level) == Cardinality(LevelHits(level))

\* C11: the four severity counters are sums over the indicator lists of
\* every catalog category, whether or not it matched a keyword or was
\* chosen; the severity returned is a level with the highest counter, and
\* Medium when all four counters are zero.
C11_SeverityOverWholeCatalog ==
    HybridRan =>
        /\ \A q \in 1..4 :
             /\ keyword_result.severity_scores[q].name = SeverityKeys[q]
             /\ keyword_result.severity_scores[q].score = LevelCount(SeverityKeys[q])
        /\ IF \A q \in 1..4 : LevelCount(SeverityKeys[q]) = 0
           THEN keyword_result.severity = "Medium"
           ELSE \E q \in 1..4 :
                  /\ keyword_result.severity = Capitalize(SeverityKeys[q])
                  /\ \A r \in 1..4 : LevelCount(SeverityKeys[r]) <= LevelCount(SeverityKeys[q])

C11_Witness ==
    /\ HybridRan /\ Len(categories) = 2
    /\ MatchCount(1) = 0 /\ MatchCount(2) > 0
    /\ keyword_result.category = categories[2].name
    /\ "high" \in DOMAIN categories[1].severity_indicators
    /\ LevelCount("high") = 1
    /\ keyword_result.severity = "High"

\* match count of the best category and word count of the normalized text
BestCount == Len(keyword_result.matched_keywords)
WordCount == Len(Split(RequestText))
\* the confidence equals min(k / max(n * 0.1, 1), 1.0) for n > 0, 0 for n = 0
ConfidenceByFormula ==
    LET k == BestCount
        n == WordCount
        den == IF n > 10 THEN n ELSE 10
        c == keyword_result.confidence
    IN /\ c.isnum
       /\ IF n = 0 THEN c.n = 0
          ELSE IF 10 * k >= den THEN c.n = c.d
          ELSE c.n * den = 10 * k * c.d

\* C12 (as stated): the confidence follows the formula and, for the same
\* match count, no text with more words (counting from zero words) scores
\* higher.
C12_NonIncreasingFromZero ==
    HybridRan =>
        /\ ConfidenceByFormula
        /\ \A m \in WordCount..(WordCount + MaxPad) :
             RatLE(KeywordConfidence(BestCount, m), keyword_result.confidence)

\* C12 (amended): the confidence follows the formula and, for the same
\* match count, no text with more words scores higher than a text of at
\* least one word.
C12_NonIncreasingFromOne ==
    HybridRan =>
        /\ ConfidenceByFormula
        /\ WordCount >= 1 =>
             \A m \in WordCount..(WordCount + MaxPad) :
                RatLE(KeywordConfidence(BestCount, m), keyword_result.confidence)

C12_Witness ==
    /\ HybridRan /\ BestCount = 1 /\ WordCount > 10
    /\ RatLT(keyword_result.confidence, Rat(7, 10))
    /\ RatLT(KeywordConfidence(BestCount, WordCount + 1), keyword_result.confidence)

\* C17: one request makes at most one outbound call; a call of the arbiter
\* is made only after the keyword tier ran, with keyword confidence < 0.7
\* and a credential; a failed call is followed by the fallback, not by a
\* second call.
C17_AtMostOneCall ==
    /\ llm_calls <= 1
    /\ pc = "llm_wait" => llm_calls = 1
    /\ (HybridRan /\ llm_calls = 1) =>
        /\ keyword_result.method = "keyword"
        /\ LowConfidence
        /\ openai_api_key
    /\ (Returned /\ AdapterAnswered) => llm_calls = 1
    /\ (Returned /\ AdapterAnswered /\ openai_result.raised) =>
        result.method = "keyword_fallback"

C17_Witness ==
    /\ Returned /\ AdapterAnswered /\ response.kind = "transport_error"
    /\ openai_result.raised /\ llm_calls = 1
    /\ result.method = "keyword_fallback"

\* C19: with an empty catalog requests are still served: the keyword tier
\* returns 'Other' with confidence 0 and severity Medium, the arbiter never
\* returns through the keyword branch, and the final category is 'Other'
\* through the LLM branch or the fallback.
C19_EmptyCatalogDegrades ==
    categories = <<>> =>
        /\ HybridRan =>
            /\ keyword_result.category = "Other"
            /\ keyword_result.severity = "Medium"
            /\ keyword_result.confidence.isnum
            /\ RatEq(keyword_result.confidence, Rat(0, 1))
        /\ Returned =>
            /\ result.success
            /\ result.method \in {"hybrid", "keyword_fallback"}
            /\ result.category = "Other"

C19_Witness ==
    /\ categories = <<>> /\ Returned /\ title # <<>>
    /\ response.category = "Roads" /\ ~openai_result.raised
    /\ result.method = "hybrid" /\ result.category = "Other"

\* C20: a result with method 'keyword' has confidence >= 0.7 and a result
\* with method 'keyword_fallback' has 0.3 <= confidence < 0.7.
C20_MethodBoundsConfidence ==
    Returned =>
        /\ result.method = "keyword" =>
             (result.confidence.isnum /\ RatGE(result.confidence, Rat(7, 10)))
        /\ result.method = "keyword_fallback" =>
             /\ result.confidence.isnum
             /\ RatGE(result.confidence, Rat(3, 10))
             /\ RatLT(result.confidence, Rat(7, 10))

C20_Witness ==
    /\ Returned /\ result.method = "keyword_fallback"
    /\ RatLT(Rat(3, 10), result.confidence)
    /\ RatLT(result.confidence, Rat(7, 10))

\* C15: preprocess_text is idempotent; its result is lowercase, made of
\* word characters and single spaces only, without a leading or trailing
\* space; None and the empty string give the empty string.
C15_NormalizerIdempotent ==
    pc = "normalized" =>
        /\ PreprocessText(text_out) = text_out
        /\ \A i \in 1..Len(text_out) :
             /\ text_out[i] \in Letters \cup {" "}
             /\ text_out[i] = " " => (i > 1 /\ i < Len(text_out) /\ text_out[i + 1] # " ")
        /\ (text_in.isnull \/ text_in.chars = <<>>) => text_out = <<>>

C15_Witness ==
    /\ pc = "normalized"
    /\ text_in = Text(<<"A", "!", "a">>)
    /\ text_out = <<"a", " ", "a">>

\* the urgency the claim describes: 8, 6, 4 or 1 by the highest tier with
\* an indicator in the text, plus 2 capped at 10 for a health/safety term
UrgencyByTier(text) ==
    LET base == IF AnyIn(UrgentKeywords, text) THEN 8
                ELSE IF AnyIn(HighKeywords, text) THEN 6
                ELSE IF AnyIn(MediumKeywords, text) THEN 4
                ELSE 1
    IN IF AnyIn(BoostWords, text)
       THEN (IF base + 2 > 10 THEN 10 ELSE base + 2)
       ELSE base

\* C13: calculate_urgency returns the score of the highest matched tier
\* (8, 6, 4, else 1) plus the health/safety boost of 2 capped at 10; the
\* result is an integer in 1..10, does not decrease when an indicator
\* keyword is added to the text, and is 10 for a text with 'emergency' and
\* 'explosion'.
C13_UrgencyByHighestTier ==
    pc = "urgency_done" =>
        /\ urgency_out = UrgencyByTier(urgency_in)
        /\ urgency_out \in 1..10
        /\ \A i, j, k \in 1..3 :
             {i, j, k} = 1..3 =>
                 ScanLevels(1, <<UrgencyLevels[i], UrgencyLevels[j], UrgencyLevels[k]>>, urgency_in)
                     = ScanLevels(1, UrgencyLevels, urgency_in)
        /\ \A w \in UrgencyVocabulary :
             CalculateUrgency(urgency_in \o <<" ">> \o w) >= urgency_out
        /\ (Contains(<<"e", "m", "e", "r", "g", "e", "n", "c", "y">>, urgency_in)
            /\ Contains(<<"e", "x", "p", "l", "o", "s", "i", "o", "n">>, urgency_in)) =>
             urgency_out = 10

C13_Witness ==
    /\ pc = "urgency_done"
    /\ AnyIn(UrgentKeywords, urgency_in) /\ AnyIn(MediumKeywords, urgency_in)
    /\ Contains(<<"e", "m", "e", "r", "g", "e", "n", "c", "y">>, urgency_in)
    /\ urgency_out = 10

\* the validator was called with a non-empty location
LocationValidated ==
    /\ pc = "location_done"
    /\ ~location_in.isnull /\ location_in.chars # <<>>

\* the gazetteer indices of the districts named in the location
DistrictsNamed == {i \in 1..Len(Districts) : DistrictIn(i, LowerStr(location_in.chars))}

\* C14: validate_jharkhand_location returns only valid = false and empty
\* suggestions for empty input; for a non-empty location naming a district
\* it returns valid = true, the first such district in gazetteer order and
\* its recorded coordinates or null ('Ranchi' gives 23.3441, 85.3096);
\* otherwise valid = false and district = null.
C14_FirstDistrictInGazetteerOrder ==
    /\ (pc = "location_done" /\ ~LocationValidated) =>
           /\ location_out.keys = {"valid", "suggestions"}
           /\ ~location_out.valid
           /\ location_out.suggestions = <<>>
    /\ LocationValidated =>
           /\ DistrictsNamed # {} =>
                  /\ location_out.valid
                  /\ ~location_out.district.isnull
                  /\ \E i \in DistrictsNamed :
                       /\ \A j \in DistrictsNamed : i <= j
                       /\ location_out.district.chars = Districts[i]
                  /\ location_out.district.chars = <<"R", "a", "n", "c", "h", "i">> =>
                       location_out.coordinates = [isnull |-> FALSE, lat |-> 233441, lon |-> 853096]
                  /\ location_out.district.chars = <<"B", "o", "k", "a", "r", "o">> =>
                       location_out.coordinates = [isnull |-> FALSE, lat |-> 236693, lon |-> 859590]
                  /\ location_out.district.chars \in {<<"G", "u", "m", "l", "a">>,
                         <<"E", "a", "s", "t", " ", "S", "i", "n", "g", "h", "b", "h", "u", "m">>} =>
                       location_out.coordinates.isnull
           /\ DistrictsNamed = {} =>
                  /\ ~location_out.valid
                  /\ location_out.district.isnull
                  /\ location_out.coordinates.isnull
           /\ location_in.chars = <<"R", "a", "n", "c", "h", "i">> =>
                  /\ location_out.valid
                  /\ location_out.district.chars = <<"R", "a", "n", "c", "h", "i">>

C14_Witness ==
    /\ LocationValidated
    /\ location_in.chars = <<"R", "a", "n", "c", "h", "i", " ", "B", "o", "k", "a", "r", "o">>
    /\ location_out.valid
    /\ location_out.district.chars = <<"B", "o", "k", "a", "r", "o">>
    /\ location_out.coordinates = [isnull |-> FALSE, lat |-> 236693, lon |-> 859590]

\* C18 as stated: with no district found and an area type matched, the
\* suggestions are exactly that type's districts, the partial-match pass
\* being left to locations where nothing matched.
C18_PartialPassOnlyIfNothingMatched ==
    (LocationValidated /\ ~location_out.valid /\ ~location_out.type.isnull) =>
        location_out.suggestions = TypeDistricts(location_out.type)

\* C18: the partial-match pass runs whenever no district name was found,
\* whether or not an area type matched: the suggestions are then the
\* matched type's districts (none without a type) followed by every
\* district one of whose words occurs in the location, in gazetteer order;
\* when a district was found the suggestions are empty.
C18_PartialPassIfNoDistrict ==
    LocationValidated =>
        LET location_lower == LowerStr(location_in.chars)
            partial == {i \in 1..Len(Districts) : PartIn(Districts[i], location_lower)}
            own == TypeDistricts(location_out.type)
            rest == SubSeq(location_out.suggestions, Len(own) + 1,
                           Len(location_out.suggestions))
        IN /\ location_out.valid => location_out.suggestions = <<>>
           /\ ~location_out.valid =>
                  /\ Len(location_out.suggestions) >= Len(own)
                  /\ SubSeq(location_out.suggestions, 1, Len(own)) = own
                  /\ Len(rest) = Cardinality(partial)
                  /\ \A k \in 1..Len(rest) : \E i \in partial : rest[k] = Districts[i]
                  /\ \A k, l \in 1..Len(rest) :
                       k < l => \E i, j \in partial :
                                  i < j /\ rest[k] = Districts[i] /\ rest[l] = Districts[j]

C18_Witness ==
    /\ LocationValidated
    /\ location_in.chars = <<"c", "o", "a", "l", " ", "s", "i", "n", "g", "h", "b", "h", "u", "m">>
    /\ location_out.type = AreaTypeOf("mining")
    /\ location_out.suggestions = MiningDistricts \o <<Districts[6], Districts[24]>>

\* the route of app.py handled the request
AppRouteRan == request.present /\ pc \in {"rejected", "llm_wait", "done"}
\* the route of enhanced_app.py handled the request
EnhancedRouteRan == request.present /\ pc \in {"enhanced_rejected", "enhanced_done"}
\* the replies that reject a request for its missing text
MissingTextErrors ==
    {"No data provided", "Title or description required", "Missing 'text' field in request"}
\* the request carries a non-empty value of the field
Carries(field) == field \in request.fields /\ request[field] # <<>>

\* C16 as stated: a request that carries at least one of title, description
\* and text is not rejected for missing text.
C16_AnyTextFieldSuffices ==
    (request.present /\ \E field \in {"title", "description", "text"} : Carries(field)) =>
        reply.error \notin MissingTextErrors

\* C16: each route rejects, with success = false and before any
\* classification runs, a request that lacks the fields it reads: the route
\* of app.py rejects exactly the requests with neither a title nor a
\* description, whatever their text field; the route of enhanced_app.py
\* rejects exactly the requests with no text field or a text shorter than
\* 10 characters once stripped, whatever their title and description. A
\* request with none of the three fields is rejected by both.
C16_RejectedBeforeClassification ==
    /\ AppRouteRan =>
           /\ pc = "rejected" <=> ~(Carries("title") \/ Carries("description"))
           /\ pc = "rejected" =>
                  /\ reply.status = 400 /\ ~reply.success
                  /\ reply.error \in {"No data provided", "Title or description required"}
                  /\ keyword_result = NoKeywordResult
                  /\ openai_result = NoCall
                  /\ result = NoResult
                  /\ llm_calls = 0
           /\ pc # "rejected" => reply = NoReply /\ keyword_result # NoKeywordResult
    /\ EnhancedRouteRan =>
           /\ pc = "enhanced_rejected" <=>
                  ("text" \notin request.fields \/ Len(Strip(request.text)) < 10)
           /\ pc = "enhanced_rejected" =>
                  /\ reply.status = 400 /\ ~reply.success
                  /\ reply.error \in {"Missing 'text' field in request",
                                      "Text must be at least 10 characters long"}
                  /\ reply.error = "Missing 'text' field in request"
                         <=> "text" \notin request.fields
                  /\ urgency_out = 0
                  /\ location_out = NoLocationResult
                  /\ llm_calls = 0
           /\ pc # "enhanced_rejected" => reply = NoReply /\ urgency_out \in 1..10
    /\ (request.present /\ request.fields \cap {"title", "description", "text"} = {}) =>
           /\ pc \in {"rejected", "enhanced_rejected"}
           /\ ~reply.success

C16_Witness ==
    /\ pc = "rejected"
    /\ request.fields = {"text"}
    /\ Carries("text")
    /\ reply = ErrorReply("Title or description required")
    /\ keyword_result = NoKeywordResult
    /\ llm_calls = 0

\* C21: for a request whose normalized text has 1 to 10 words the keyword
\* confidence is 0 when no category matched and exactly 1 when some keyword
\* of some category matched; in the second case the arbiter returns the
\* keyword result without any call to the LLM adapter.
C21_ShortTextAllOrNothing ==
    (HybridRan /\ WordCount \in 1..10) =>
        /\ keyword_result.confidence.isnum
        /\ NothingMatches =>
               /\ RatEq(keyword_result.confidence, Rat(0, 1))
               /\ keyword_result.category = "Other"
        /\ ~NothingMatches =>
               /\ RatEq(keyword_result.confidence, Rat(1, 1))
               /\ Returned
               /\ result.method = "keyword"
               /\ llm_calls = 0
               /\ ~AdapterAnswered

C21_Witness ==
    /\ Returned /\ openai_api_key
    /\ WordCount = 10
    /\ BestCount = 1
    /\ \E i \in 1..Len(categories) : MatchCount(i) = 1 /\ categories[i].keywords[1] # <<>>
    /\ RatEq(keyword_result.confidence, Rat(1, 1))
    /\ result.method = "keyword" /\ llm_calls = 0

\* the four severity counters of the request, in the order low, medium,
\* high, critical
LevelCounts ==
    LET text == RequestText
        Hits(level) ==
            {<<i, m>> \in UNION {{i} \X (1..Len(categories[i].severity_indicators[level])) :
                                    i \in {c \in 1..Len(categories) :
                                              level \in DOMAIN categories[c].severity_indicators}} :
                 Contains(LowerStr(categories[i].severity_indicators[level][m]), text)}
    IN [q \in 1..4 |-> Cardinality(Hits(SeverityKeys[q]))]
\* the highest of four counters
TopCount(counts) ==
    CHOOSE n \in {counts[q] : q \in 1..4} : \A r \in 1..4 : counts[r] <= n
\* the positions of the levels whose counter is the highest
TopLevels(counts) == {q \in 1..4 : counts[q] = TopCount(counts)}

\* C22: when the highest severity counter is positive, the severity
\* returned by keyword_classification is the lowest, in the order
\* Low < Medium < High < Critical, of the levels that share it; a tie
\* between Low and Critical returns Low.
C22_TieGoesToLowestLevel ==
    HybridRan =>
        LET counts == LevelCounts
            top == TopLevels(counts)
        IN TopCount(counts) > 0 =>
               /\ \E q \in top :
                    /\ \A r \in top : q <= r
                    /\ keyword_result.severity = Capitalize(SeverityKeys[q])
               /\ ({1, 4} \subseteq top) => keyword_result.severity = "Low"

C22_Witness ==
    /\ HybridRan
    /\ keyword_result.severity = "Low"
    /\ LET counts == LevelCounts
       IN /\ TopCount(counts) = 1
          /\ TopLevels(counts) = {1, 4}

\* validate_jharkhand_location returned for a non-empty location, called on
\* its own or by the route of enhanced_app.py
LocationResultReturned ==
    /\ pc \in {"location_done", "enhanced_done"}
    /\ ~location_in.isnull /\ location_in.chars # <<>>

\* C23: every result of validate_jharkhand_location on a non-empty
\* location has all five keys and satisfies: valid if and only if district
\* is non-null; valid implies no suggestions; coordinates non-null implies
\* valid.
C23_ValidatorResultConsistent ==
    LocationResultReturned =>
        /\ location_out.keys = {"valid", "district", "suggestions", "coordinates", "type"}
        /\ location_out.valid <=> ~location_out.district.isnull
        /\ location_out.valid => location_out.suggestions = <<>>
        /\ ~location_out.coordinates.isnull => location_out.valid

C23_Witness ==
    /\ LocationResultReturned
    /\ location_out.valid
    /\ location_out.district.chars = <<"R", "a", "n", "c", "h", "i">>
    /\ ~location_out.coordinates.isnull
    /\ location_out.type = AreaTypeOf("mining")
    /\ PartialMatches(LowerStr(location_in.chars)) # <<>>
    /\ location_out.suggestions = <<>>

====
